---- MODULE Spec2Model ----
(***************************************************************************)
(* State-machine model of the CRM module: the CRM facade (src/src/crm.js)  *)
(* over the SupabaseDB persistence client (src/src/db.js) and the four     *)
(* tables of the SQL schema shipped with the sources.                      *)
(*                                                                         *)
(* One action per facade method; an action is the whole handler, i.e. all  *)
(* store round trips it issues.  The store is modelled from the schema:    *)
(* serial ids shared by all tenants, foreign keys that check only the id,  *)
(* "on delete cascade" / "on delete set null", and the client's .single()  *)
(* which turns "no row" into an error.                                     *)
(***************************************************************************)
EXTENDS Integers, Sequences, FiniteSets, TLC

(***************************************************************************)
(* Bounds of the model (not program constants).                            *)
(***************************************************************************)
\* largest stage id handed out in the stage-lifecycle specification
MaxStageIdInit == 12
\* stages created one by one in the stage-lifecycle specification
MaxCustomStages == 1
\* largest stage id handed out in the stage-ordering specification
MaxStageIdReorder == 2
\* largest stage id handed out to the two concurrent callers of createStage
MaxStageIdRace == 3
\* largest stage id handed out in the stage-position specification
MaxStageIdPositions == 7
\* largest stage id handed out in the other specifications
MaxStageId == 1
\* largest contact id handed out in the pipeline-statistics specification
MaxContactIdPipeline == 2
\* largest contact id handed out in the other specifications
MaxContactId == 1
\* largest interaction id handed out
MaxInteractionId == 1
\* largest task id handed out in the task-listing specification
MaxTaskIdList == 3
\* largest task id handed out in the other specifications
MaxTaskId == 1
\* last value of the wall clock that an operation may read
MaxClock == 3
\* longest id list passed to reorderStages
MaxReorderLen == 2

(***************************************************************************)
(* Values.                                                                 *)
(***************************************************************************)
\* SQL null / JS null
NULL == -1
\* JS undefined: a key that the caller did not supply
UNDEFINED == -2
\* the tenants (agent ids) two clients are bound to
Tenants == {"A", "B"}
\* the absent / empty string; `!x` is true of it as of undefined and null
ABSENT == ""

\* JS truthiness of a numeric or absent input
Truthy(x) == x # NULL /\ x # UNDEFINED /\ x # 0
\* JS `x || null`
OrNull(x) == IF Truthy(x) THEN x ELSE NULL

VARIABLES
  crm_stages,        \* table crm_stages: set of rows
  crm_contacts,      \* table crm_contacts: set of rows
  crm_interactions,  \* table crm_interactions: set of rows
  crm_tasks,         \* table crm_tasks: set of rows
  serial,            \* the four `serial` id sequences: last id handed out
  now,               \* last value read from the wall clock (new Date(), now())
  stage_fk,          \* crm_contacts.stage_id rule of the deployed schema
  res,               \* what the last facade call returned or threw
  calls              \* per concurrent caller: the stage call it has in flight

vars ==
  <<crm_stages, crm_contacts, crm_interactions, crm_tasks, serial, now, stage_fk, res, calls>>

tables == <<crm_stages, crm_contacts, crm_interactions, crm_tasks, serial>>

(***************************************************************************)
(* The two schemas shipped with the sources differ in one rule.            *)
(***************************************************************************)
StageFkRules == {"set null", "no action"}

\* store error codes
NoRows == "PGRST116: no rows"

\* an error of the store itself (connectivity, timeout)
StoreFailure == "store failure"
FkViolation == "23503: foreign key violation"

(***************************************************************************)
(* Results of a facade call.                                               *)
(***************************************************************************)
Returned(op, t, args, q, data) ==
  [op |-> op, agent |-> t, args |-> args, ok |-> TRUE, err |-> "", queries |-> q, data |-> data]

Threw(op, t, args, q, err) ==
  [op |-> op, agent |-> t, args |-> args, ok |-> FALSE, err |-> err, queries |-> q, data |-> NULL]

NoCall == [op |-> "none", agent |-> "", args |-> <<>>, ok |-> TRUE, err |-> "", queries |-> 0, data |-> NULL]

\* the clients that issue stage calls concurrently: a call of one may be
\* suspended at an await while the other proceeds
Callers == {"c1", "c2"}

\* a caller with no call in flight and none finished
Idle ==
  [pc |-> "idle", op |-> "none", agent |-> "", name |-> "", existing |-> <<>>,
   created |-> <<>>]

\* the state after the schema was deployed with the given stage_id rule
InitSchema(rules) ==
  /\ crm_stages = {}
  /\ crm_contacts = {}
  /\ crm_interactions = {}
  /\ crm_tasks = {}
  /\ serial = [stages |-> 0, contacts |-> 0, interactions |-> 0, tasks |-> 0]
  /\ now = 0
  /\ stage_fk \in rules
  /\ res = NoCall
  /\ calls = [c \in Callers |-> Idle]

Init == InitSchema(StageFkRules)

\* for the specifications in which no stage is deleted: the rule never applies
InitStages == InitSchema({"set null"})

(***************************************************************************)
(* Generic helpers.                                                        *)
(***************************************************************************)
Range(s) == {s[i] : i \in 1..Len(s)}

RECURSIVE SeqsUpTo(_, _)
\* all sequences over S of length at most n
SeqsUpTo(S, n) ==
  IF n = 0 THEN {<<>>}
  ELSE LET shorter == SeqsUpTo(S, n - 1)
       IN shorter \cup {Append(s, x) : s \in shorter, x \in S}

RECURSIVE SumOver(_, _)
\* sum of f[r] over the rows r of the finite set S
SumOver(S, f) ==
  IF S = {} THEN 0
  ELSE LET r == CHOOSE x \in S : TRUE
       IN f[r] + SumOver(S \ {r}, f)

RECURSIVE SumSeq(_, _)
\* sum of f[s[i]] over the sequence s
SumSeq(s, f) ==
  IF s = <<>> THEN 0 ELSE f[Head(s)] + SumSeq(Tail(s), f)

(***************************************************************************)
(* STAGES                                                                  *)
(***************************************************************************)
\* rows of crm_stages with agent_id = t
StagesOf(S, t) == {r \in S : r.agent_id = t}

RECURSIVE OrderedBy(_)
\* every order the store may return the rows S in under .order('position'):
\* ascending position, rows of equal position in any order
OrderedBy(S) ==
  IF S = {} THEN {<<>>}
  ELSE UNION {{<<r>> \o s : s \in OrderedBy(S \ {r})} :
               r \in {x \in S : \A y \in S : x.position <= y.position}}

\* SupabaseDB.listStages: the possible results
db_listStages(S, t) == OrderedBy(StagesOf(S, t))

\* SupabaseDB.createStage: the inserted row
db_createStage(t, id, name, position) ==
  [id |-> id, agent_id |-> t, name |-> name, position |-> position]

\* CRM.createStage: the position stored when none is supplied
AutoPosition(existing) == Len(existing) + 1

\* a createStage that takes a falsy position (0) for a missing one
StagePositionOrAuto(position, existing) ==
  IF Truthy(position) THEN position ELSE AutoPosition(existing)

\* CRM.createStage: the position handed to the store
StagePosition(position, existing) ==
  IF position = UNDEFINED THEN AutoPosition(existing) ELSE position

\* SupabaseDB.updateStage with { position }: the table after the update
db_updateStage(S, t, id, position) ==
  {IF r.id = id /\ r.agent_id = t THEN [r EXCEPT !.position = position] ELSE r : r \in S}

\* a reorderStages that writes the 0-based index itself as the position
ReorderPositionZeroBased(index) == index

\* SupabaseDB.reorderStages: the position written for the id at a 0-based index
ReorderPosition(index) == index + 1

\* a reorderStages that writes nothing unless every listed id is a stage of
\* the tenant
ReorderAllOrNothing(S, t, ids, k) ==
  LET bad == {j \in k..Len(ids) : ~\E r \in S : r.id = ids[j] /\ r.agent_id = t}
  IN IF bad # {}
     THEN [stages |-> S, failed |-> CHOOSE j \in bad : \A i \in bad : j <= i]
     ELSE [stages |->
             {IF r.agent_id = t /\ \E j \in k..Len(ids) : ids[j] = r.id
              THEN [r EXCEPT !.position =
                      ReorderPosition((CHOOSE j \in k..Len(ids) :
                                         /\ ids[j] = r.id
                                         /\ \A i \in k..Len(ids) : ids[i] = r.id => i <= j) - 1)]
              ELSE r : r \in S},
           failed |-> 0]

RECURSIVE ReorderFrom(_, _, _, _)
\* SupabaseDB.reorderStages: the sequential updates from the k-th listed id on;
\* an update that matches no row of the tenant makes .single() fail and
\* stops the loop, the earlier writes stay
ReorderFrom(S, t, ids, k) ==
  IF k > Len(ids) THEN [stages |-> S, failed |-> 0]
  ELSE IF \E r \in S : r.id = ids[k] /\ r.agent_id = t
       THEN ReorderFrom(db_updateStage(S, t, ids[k], ReorderPosition(k - 1)), t, ids, k + 1)
       ELSE [stages |-> S, failed |-> k]

\* CRM.initializeDefaultStages: the six default stages
defaultStages ==
  << [name |-> "Lead", position |-> 1],
     [name |-> "Contacted", position |-> 2],
     [name |-> "Qualified", position |-> 3],
     [name |-> "Proposal", position |-> 4],
     [name |-> "Negotiation", position |-> 5],
     [name |-> "Won", position |-> 6] >>

\* an initializeDefaultStages that re-seeds a tenant holding a single stage
MoreThanOneStage(existing) == Len(existing) > 1

\* CRM.initializeDefaultStages: whether the tenant counts as initialized
AlreadyInitialized(existing) == Len(existing) > 0

\* CRM.listStages
listStages(t) ==
  /\ \E data \in db_listStages(crm_stages, t) :
       res' = Returned("listStages", t, <<>>, 1, data)
  /\ UNCHANGED <<tables, now, stage_fk, calls>>

\* CRM.createStage
createStage(t, name, position, maxId) ==
  LET args == [name |-> name, position |-> position]
  IN IF name = ABSENT
     THEN /\ res' = Threw("createStage", t, args, 0, "Stage name is required")
          /\ UNCHANGED <<tables, now, stage_fk, calls>>
     ELSE /\ serial.stages < maxId
          /\ \E existing \in db_listStages(crm_stages, t) :
               LET row == db_createStage(t, serial.stages + 1, name,
                                         StagePosition(position, existing))
               IN /\ crm_stages' = crm_stages \cup {row}
                  /\ serial' = [serial EXCEPT !.stages = @ + 1]
                  /\ res' = Returned("createStage", t, args,
                                     IF position = UNDEFINED THEN 2 ELSE 1, row)
          /\ UNCHANGED <<crm_contacts, crm_interactions, crm_tasks, now, stage_fk, calls>>

\* CRM.deleteStage -> SupabaseDB.deleteStage, with the schema's rule for the
\* contacts that reference the deleted stage
deleteStage(t, id) ==
  LET target == {r \in crm_stages : r.id = id /\ r.agent_id = t}
      refs == {c \in crm_contacts : target # {} /\ c.stage_id = id}
  IN IF refs # {} /\ stage_fk = "no action"
     THEN /\ res' = Threw("deleteStage", t, <<id>>, 1, FkViolation)
          /\ UNCHANGED <<tables, now, stage_fk, calls>>
     ELSE /\ crm_stages' = crm_stages \ target
          /\ crm_contacts' = {IF c \in refs THEN [c EXCEPT !.stage_id = NULL] ELSE c :
                               c \in crm_contacts}
          /\ res' = Returned("deleteStage", t, <<id>>, 1, [deleted |-> TRUE])
          /\ UNCHANGED <<crm_interactions, crm_tasks, serial, now, stage_fk, calls>>

\* CRM.reorderStages -> SupabaseDB.reorderStages
reorderStages(t, stageIds) ==
  LET r == ReorderFrom(crm_stages, t, stageIds, 1)
  IN /\ crm_stages' = r.stages
     /\ IF r.failed = 0
        THEN \E data \in db_listStages(r.stages, t) :
               res' = Returned("reorderStages", t, stageIds, Len(stageIds) + 1, data)
        ELSE res' = Threw("reorderStages", t, stageIds, r.failed, NoRows)
     /\ UNCHANGED <<crm_contacts, crm_interactions, crm_tasks, serial, now, stage_fk, calls>>

\* CRM.reorderStages -> SupabaseDB.reorderStages with a store that fails the
\* update of the fails_at-th listed id when the loop gets there (0: the store
\* fails no update): the loop runs over the ids before it, then the error of
\* the store is thrown
reorderStagesWith(t, stageIds, fails_at) ==
  IF fails_at = 0 THEN reorderStages(t, stageIds)
  ELSE LET r == ReorderFrom(crm_stages, t, SubSeq(stageIds, 1, fails_at - 1), 1)
       IN /\ crm_stages' = r.stages
          /\ res' = IF r.failed = 0
                    THEN Threw("reorderStages", t, stageIds, fails_at, StoreFailure)
                    ELSE Threw("reorderStages", t, stageIds, r.failed, NoRows)
          /\ UNCHANGED <<crm_contacts, crm_interactions, crm_tasks, serial, now, stage_fk, calls>>

\* CRM.initializeDefaultStages
initializeDefaultStages(t, maxId) ==
  \E existing \in db_listStages(crm_stages, t) :
    IF AlreadyInitialized(existing)
    THEN /\ res' = Returned("initializeDefaultStages", t, <<>>, 1,
                            [status |-> "already_initialized", stages |-> existing])
         /\ UNCHANGED <<tables, now, stage_fk, calls>>
    ELSE /\ serial.stages + Len(defaultStages) <= maxId
         /\ LET created == [i \in 1..Len(defaultStages) |->
                              db_createStage(t, serial.stages + i, defaultStages[i].name,
                                             StagePosition(defaultStages[i].position, existing))]
            IN /\ crm_stages' = crm_stages \cup Range(created)
               /\ serial' = [serial EXCEPT !.stages = @ + Len(defaultStages)]
               /\ res' = Returned("initializeDefaultStages", t, <<>>, 1 + Len(defaultStages),
                                  [status |-> "initialized", stages |-> created])
         /\ UNCHANGED <<crm_contacts, crm_interactions, crm_tasks, now, stage_fk, calls>>

(***************************************************************************)
(* Stage calls of concurrent callers, one await at a time: the facade      *)
(* methods are async, so between the query that reads the stage list and   *)
(* the insert that follows, and between two inserts of the seeding loop,   *)
(* the calls of other clients run.                                         *)
(***************************************************************************)
\* an insert into a crm_stages that allows one stage per tenant and position
InsertStageUniquePosition(S, row) ==
  IF \E r \in S : r.agent_id = row.agent_id /\ r.position = row.position
  THEN [ok |-> FALSE, err |-> "23505: unique violation", stages |-> S]
  ELSE [ok |-> TRUE, err |-> "", stages |-> S \cup {row}]

\* SupabaseDB.createStage: .insert(...).select().single() of a row with a
\* fresh serial id; the schema puts no constraint on agent_id and position
InsertStage(S, row) == [ok |-> TRUE, err |-> "", stages |-> S \cup {row}]

\* the caller has no call in flight
Free(c) == calls[c].pc \in {"idle", "done", "failed"}

\* CRM.createStage for a stage without position, up to and including
\* `await this.db.listStages()`
createStageRead(c, t, name) ==
  /\ Free(c)
  /\ name # ABSENT
  /\ \E existing \in db_listStages(crm_stages, t) :
       calls' = [calls EXCEPT ![c] =
                   [pc |-> "insert", op |-> "createStage", agent |-> t, name |-> name,
                    existing |-> existing, created |-> <<>>]]
  /\ UNCHANGED <<tables, now, stage_fk, res>>

\* CRM.createStage for a stage without position, from `stage.position =
\* existing.length + 1` to the return of this.db.createStage(stage)
createStageInsert(c, maxId) ==
  /\ calls[c].pc = "insert"
  /\ calls[c].op = "createStage"
  /\ serial.stages < maxId
  /\ LET call == calls[c]
         args == [name |-> call.name, position |-> UNDEFINED]
         row == db_createStage(call.agent, serial.stages + 1, call.name,
                               StagePosition(UNDEFINED, call.existing))
         ins == InsertStage(crm_stages, row)
     IN /\ crm_stages' = ins.stages
        /\ serial' = [serial EXCEPT !.stages = @ + 1]
        /\ res' = IF ins.ok THEN Returned("createStage", call.agent, args, 2, row)
                  ELSE Threw("createStage", call.agent, args, 2, ins.err)
        /\ calls' = [calls EXCEPT ![c] =
                       [call EXCEPT !.pc = IF ins.ok THEN "done" ELSE "failed",
                                    !.created = IF ins.ok THEN <<row>> ELSE <<>>]]
  /\ UNCHANGED <<crm_contacts, crm_interactions, crm_tasks, now, stage_fk>>

\* CRM.initializeDefaultStages up to the loop: `await this.listStages()` and
\* the return for a tenant that has stages
initializeRead(c, t) ==
  /\ Free(c)
  /\ \E existing \in db_listStages(crm_stages, t) :
       LET call == [pc |-> "seed", op |-> "initializeDefaultStages", agent |-> t,
                    name |-> "", existing |-> existing, created |-> <<>>]
       IN IF AlreadyInitialized(existing)
          THEN /\ res' = Returned("initializeDefaultStages", t, <<>>, 1,
                                  [status |-> "already_initialized", stages |-> existing])
               /\ calls' = [calls EXCEPT ![c] = [call EXCEPT !.pc = "done"]]
          ELSE /\ calls' = [calls EXCEPT ![c] = call]
               /\ UNCHANGED res
  /\ UNCHANGED <<tables, now, stage_fk>>

\* CRM.initializeDefaultStages: one turn of the loop, `created.push(await
\* this.createStage(stage))` (the position is supplied: one insert), and
\* after the last turn the return; fails tells whether the store answers the
\* insert with an error of its own
initializeInsert(c, maxId, fails) ==
  /\ calls[c].pc = "seed"
  /\ calls[c].op = "initializeDefaultStages"
  /\ LET call == calls[c]
         i == Len(call.created) + 1
         row == db_createStage(call.agent, serial.stages + 1, defaultStages[i].name,
                               StagePosition(defaultStages[i].position, call.existing))
         ins == IF fails THEN [ok |-> FALSE, err |-> StoreFailure, stages |-> crm_stages]
                ELSE InsertStage(crm_stages, row)
         created == Append(call.created, row)
     IN /\ ~fails => serial.stages < maxId
        /\ crm_stages' = ins.stages
        /\ serial' = IF fails THEN serial ELSE [serial EXCEPT !.stages = @ + 1]
        /\ IF ~ins.ok
           THEN /\ res' = Threw("initializeDefaultStages", call.agent, <<>>, 1 + i, ins.err)
                /\ calls' = [calls EXCEPT ![c] = [call EXCEPT !.pc = "failed"]]
           ELSE IF i = Len(defaultStages)
           THEN /\ res' = Returned("initializeDefaultStages", call.agent, <<>>, 1 + i,
                                   [status |-> "initialized", stages |-> created])
                /\ calls' = [calls EXCEPT ![c] = [call EXCEPT !.pc = "done",
                                                               !.created = created]]
           ELSE /\ calls' = [calls EXCEPT ![c] = [call EXCEPT !.created = created]]
                /\ UNCHANGED res
  /\ UNCHANGED <<crm_contacts, crm_interactions, crm_tasks, now, stage_fk>>

(***************************************************************************)
(* CONTACTS                                                                *)
(***************************************************************************)
\* SQL null in a text column
NoText == "<null>"

\* ids present in a table
Ids(T) == {r.id : r \in T}

\* the row of table T with the given id, as a set (empty when there is none)
ById(T, id) == {r \in T : r.id = id}

\* a foreign key `references T(id)`: null, or the id of some row of T.  The key
\* names the id only: the referenced row's agent_id is not part of it.
FkHolds(ref, T) == ref = NULL \/ ref \in Ids(T)

\* the embedded resource of a select such as '*, crm_stages(name, color)':
\* the row the foreign key designates, whatever its agent_id
Embed(ref, T) == ById(T, ref)

\* SupabaseDB.createContact: the inserted row; isActive is "undefined", "true"
\* or "false"
db_createContact(t, id, contact, clock) ==
  [id |-> id,
   agent_id |-> t,
   name |-> contact.name,
   stage_id |-> OrNull(contact.stageId),
   stage_entered_at |-> IF Truthy(contact.stageId) THEN clock ELSE NULL,
   deal_value |-> OrNull(contact.dealValue),
   is_active |-> contact.isActive # "false",
   lost_reason |-> NoText,
   created_at |-> clock,
   updated_at |-> clock,
   last_contact_at |-> NULL]

\* SupabaseDB.updateContact: fieldMap, camelCase key -> column (the columns the
\* model keeps)
contactFieldMap ==
  [name |-> "name", stageId |-> "stage_id", dealValue |-> "deal_value",
   isActive |-> "is_active", lostReason |-> "lost_reason",
   lastContactAt |-> "last_contact_at"]

\* names every object literal inherits from Object.prototype: `fieldMap[key]`
\* is truthy (a function) for them although fieldMap has no such key
ObjectPrototypeKeys ==
  {"constructor", "toString", "toLocaleString", "valueOf", "hasOwnProperty",
   "isPrototypeOf", "propertyIsEnumerable"}

\* the property name `updateData[fieldMap[key]]` gets for an inherited name:
\* the source text of a function, the name of no column
InheritedColumn == "function () { [native code] }"

\* store error: the payload names a column the table does not have
UnknownColumn == "PGRST204: column not found"

\* `if (fieldMap[key])` for the own keys of the update bag
MappedKeys(fieldMap, updates) ==
  {k \in DOMAIN updates : k \in DOMAIN fieldMap \/ k \in ObjectPrototypeKeys}

\* `fieldMap[key]` as a property name of updateData
ColumnOf(fieldMap, k) == IF k \in DOMAIN fieldMap THEN fieldMap[k] ELSE InheritedColumn

\* the loop `for (const [key, value] of Object.entries(updates))` of the three
\* update methods: the columns it puts into updateData
UpdateData(fieldMap, updates) ==
  LET keys == MappedKeys(fieldMap, updates)
  IN [c \in {ColumnOf(fieldMap, k) : k \in keys} |->
        updates[CHOOSE k \in keys : ColumnOf(fieldMap, k) = c]]

\* SupabaseDB.updateContact: updateData built from the update bag
ContactUpdateData(updates, clock) ==
  LET d == UpdateData(contactFieldMap, updates)
  IN [c \in DOMAIN d \cup {"updated_at"} |-> IF c \in DOMAIN d THEN d[c] ELSE clock]

\* a moveContactStage whose update leaves stage_entered_at out
MoveStageDataNoEntry(stageId, clock) ==
  [stage_id |-> stageId, updated_at |-> clock]

\* SupabaseDB.moveContactStage: the columns written by its single update
MoveStageData(stageId, clock) ==
  [stage_id |-> stageId, stage_entered_at |-> clock, updated_at |-> clock]

\* a row with the columns of `data` overwritten
Merge(row, data) ==
  [c \in DOMAIN row |-> IF c \in DOMAIN data THEN data[c] ELSE row[c]]

\* a contact update that addresses the row by id alone
UpdateContactRowsAnyTenant(C, S, t, id, data) ==
  LET hit == {r \in C : r.id = id}
  IN IF hit = {} THEN [ok |-> FALSE, err |-> NoRows, contacts |-> C]
     ELSE [ok |-> TRUE, err |-> "",
           contacts |-> {IF r \in hit THEN Merge(r, data) ELSE r : r \in C}]

\* .update(data).eq('id', id).eq('agent_id', t).select().single() on
\* crm_contacts: the outcome and the table afterwards
UpdateContactRows(C, S, t, id, data) ==
  LET hit == {r \in C : r.id = id /\ r.agent_id = t}
  IN IF InheritedColumn \in DOMAIN data
     THEN [ok |-> FALSE, err |-> UnknownColumn, contacts |-> C]
     ELSE IF hit = {} THEN [ok |-> FALSE, err |-> NoRows, contacts |-> C]
     ELSE IF "stage_id" \in DOMAIN data /\ ~FkHolds(data.stage_id, S)
          THEN [ok |-> FALSE, err |-> FkViolation, contacts |-> C]
          ELSE [ok |-> TRUE, err |-> "",
                contacts |-> {IF r \in hit THEN Merge(r, data) ELSE r : r \in C}]

\* SupabaseDB.updateContact
db_updateContact(C, S, t, id, updates, clock) ==
  UpdateContactRows(C, S, t, id, ContactUpdateData(updates, clock))

\* SupabaseDB.moveContactStage
db_moveContactStage(C, S, t, id, stageId, clock) ==
  UpdateContactRows(C, S, t, id, MoveStageData(stageId, clock))

\* a contact row as the client returns it, with its embedded stage
WithStage(r, S) == [row |-> r, crm_stages |-> Embed(r.stage_id, S)]

\* SupabaseDB.listContacts: the rows returned (stageId and isActive filters)
db_listContacts(C, S, t, options) ==
  {WithStage(r, S) : r \in
     {r \in C : /\ r.agent_id = t
                /\ Truthy(options.stageId) => r.stage_id = options.stageId
                /\ options.isActive # "undefined" => r.is_active = (options.isActive = "true")}}

\* the wall clock: every read is later than every earlier read
Clock == now + 1

\* CRM.createContact
createContact(t, contact, maxId) ==
  IF contact.name = ABSENT
  THEN /\ res' = Threw("createContact", t, contact, 0, "Contact name is required")
       /\ UNCHANGED <<tables, now, stage_fk, calls>>
  ELSE IF ~FkHolds(OrNull(contact.stageId), crm_stages)
  THEN /\ res' = Threw("createContact", t, contact, 1, FkViolation)
       /\ UNCHANGED <<tables, now, stage_fk, calls>>
  ELSE /\ serial.contacts < maxId
       /\ Clock <= MaxClock
       /\ LET row == db_createContact(t, serial.contacts + 1, contact, Clock)
          IN /\ crm_contacts' = crm_contacts \cup {row}
             /\ res' = Returned("createContact", t, contact, 1, WithStage(row, crm_stages))
       /\ serial' = [serial EXCEPT !.contacts = @ + 1]
       /\ now' = Clock
       /\ UNCHANGED <<crm_stages, crm_interactions, crm_tasks, stage_fk, calls>>

\* the facade methods that end in one update of a contact row
ContactWrite(op, t, id, args, r) ==
  /\ Clock <= MaxClock
  /\ crm_contacts' = r.contacts
  /\ now' = IF r.ok THEN Clock ELSE now
  /\ res' = IF r.ok
            THEN Returned(op, t, args, 1,
                          {WithStage(c, crm_stages) : c \in ById(r.contacts, id)})
            ELSE Threw(op, t, args, 1, r.err)
  /\ UNCHANGED <<crm_stages, crm_interactions, crm_tasks, serial, stage_fk, calls>>

\* CRM.updateContact
updateContact(t, id, updates) ==
  ContactWrite("updateContact", t, id, <<id, updates>>,
               db_updateContact(crm_contacts, crm_stages, t, id, updates, Clock))

\* CRM.moveStage
moveStage(t, id, stageId) ==
  ContactWrite("moveStage", t, id, <<id, stageId>>,
               db_moveContactStage(crm_contacts, crm_stages, t, id, stageId, Clock))

\* CRM.markLost
markLost(t, id, reason) ==
  ContactWrite("markLost", t, id, <<id, reason>>,
               db_updateContact(crm_contacts, crm_stages, t, id,
                                [isActive |-> FALSE, lostReason |-> reason], Clock))

\* a reactivate that sets the flag and leaves the reason
reactivateFlagOnly(t, id) ==
  ContactWrite("reactivate", t, id, <<id>>,
               db_updateContact(crm_contacts, crm_stages, t, id, [isActive |-> TRUE], Clock))

\* CRM.reactivate
reactivate(t, id) ==
  ContactWrite("reactivate", t, id, <<id>>,
               db_updateContact(crm_contacts, crm_stages, t, id,
                                [isActive |-> TRUE, lostReason |-> NoText], Clock))

\* CRM.deleteContact -> SupabaseDB.deleteContact; interactions and tasks that
\* reference the contact go with it (on delete cascade)
deleteContact(t, id) ==
  LET target == {r \in crm_contacts : r.id = id /\ r.agent_id = t}
      gone(T) == {r \in T : target # {} /\ r.contact_id = id}
  IN /\ crm_contacts' = crm_contacts \ target
     /\ crm_interactions' = crm_interactions \ gone(crm_interactions)
     /\ crm_tasks' = crm_tasks \ gone(crm_tasks)
     /\ res' = Returned("deleteContact", t, <<id>>, 1, [deleted |-> TRUE])
     /\ UNCHANGED <<crm_stages, serial, now, stage_fk, calls>>

\* CRM.listContacts
listContacts(t, options) ==
  /\ res' = Returned("listContacts", t, options, 1,
                     db_listContacts(crm_contacts, crm_stages, t, options))
  /\ UNCHANGED <<tables, now, stage_fk, calls>>

\* CRM.getContact
getContact(t, id) ==
  LET hit == {r \in crm_contacts : r.id = id /\ r.agent_id = t}
  IN /\ res' = IF hit = {} THEN Threw("getContact", t, <<id>>, 1, NoRows)
               ELSE Returned("getContact", t, <<id>>, 1,
                             {WithStage(r, crm_stages) : r \in hit})
     /\ UNCHANGED <<tables, now, stage_fk, calls>>

\* A search query is a record: whether the argument was given at all
\* (undefined and null are not), and its characters.
NoQuery == [given |-> FALSE, text |-> <<>>]

\* the string with the given characters
Text(chars) == [given |-> TRUE, text |-> chars]

\* the characters String.prototype.trim removes (those the inputs use)
WhiteSpace == {" ", "\t", "\n"}

\* a trim that removes nothing
NoTrim(chars) == chars

RECURSIVE Trim(_)
\* String.prototype.trim: white space removed from both ends
Trim(chars) ==
  IF chars = <<>> THEN chars
  ELSE IF Head(chars) \in WhiteSpace THEN Trim(Tail(chars))
  ELSE IF chars[Len(chars)] \in WhiteSpace THEN Trim(SubSeq(chars, 1, Len(chars) - 1))
  ELSE chars

\* CRM.searchContacts: `!query || query.trim().length === 0`
EmptyQuery(query) ==
  \/ ~query.given
  \/ query.text = <<>>
  \/ Len(Trim(query.text)) = 0

\* the characters of the contact names in use, lower-cased as ilike
\* compares them
Letters(name) ==
  CASE name = "Acme" -> <<"a", "c", "m", "e">>
    [] name = "Bolt" -> <<"b", "o", "l", "t">>
    [] OTHER -> <<>>

\* the lower-case form of the characters the queries use
Lower(ch) ==
  CASE ch = "A" -> "a"
    [] ch = "C" -> "c"
    [] OTHER -> ch

\* name ilike '%term%': the term occurs in the name, case ignored (terms
\* without the wildcards % and _)
ILike(name, term) ==
  LET n == Letters(name)
      q == [i \in 1..Len(term) |-> Lower(term[i])]
  IN \E k \in 0..(Len(n) - Len(q)) : SubSeq(n, k + 1, k + Len(q)) = q

\* SupabaseDB.searchContacts: the rows returned (of the searched columns the
\* model keeps name)
db_searchContacts(C, S, t, query) ==
  {WithStage(r, S) : r \in {x \in C : x.agent_id = t /\ ILike(x.name, query.text)}}

\* CRM.searchContacts
searchContacts(t, query) ==
  /\ res' = IF EmptyQuery(query)
            THEN Returned("searchContacts", t, query, 0, {})
            ELSE Returned("searchContacts", t, query, 1,
                          db_searchContacts(crm_contacts, crm_stages, t, query))
  /\ UNCHANGED <<tables, now, stage_fk, calls>>

(***************************************************************************)
(* INTERACTIONS                                                            *)
(***************************************************************************)
\* a text property of an argument object: undefined when the object has no
\* such property
Field(object, key) == IF key \in DOMAIN object THEN object[key] ELSE ABSENT

\* `text || null`
TextOrNull(text) == IF text = ABSENT THEN NoText ELSE text

\* SupabaseDB.addInteraction: the inserted row; metadata is the set of the
\* <<key, value>> pairs of the map (`interaction.metadata || {}`); created_at takes the schema's
\* default now()
db_addInteractionRow(t, id, interaction, clock) ==
  [id |-> id,
   agent_id |-> t,
   contact_id |-> interaction.contactId,
   type |-> interaction.type,
   subject |-> TextOrNull(Field(interaction, "subject")),
   content |-> TextOrNull(Field(interaction, "content")),
   created_by |-> interaction.createdBy,
   metadata |-> IF "metadata" \in DOMAIN interaction THEN interaction.metadata ELSE {},
   created_at |-> clock]

\* an addInteraction that does not check createdBy
InteractionMissingNoCreator(interaction) ==
  IF ~Truthy(interaction.contactId) THEN "Contact ID is required"
  ELSE IF interaction.type = ABSENT THEN "Interaction type is required"
  ELSE ""

\* CRM.addInteraction: the required-field checks, in the order of the code;
\* the empty string when all pass
InteractionMissing(interaction) ==
  IF ~Truthy(interaction.contactId) THEN "Contact ID is required"
  ELSE IF interaction.type = ABSENT THEN "Interaction type is required"
  ELSE IF interaction.createdBy = ABSENT THEN "Created by is required"
  ELSE ""

\* CRM.addInteraction -> SupabaseDB.addInteraction: the insert, then the
\* refresh of the contact's last_contact_at through updateContact; op and
\* args name the call of the facade that passed the interaction on;
\* refresh_fails tells whether the store answers the refresh with an error
\* of its own
addInteractionWith(op, t, args, interaction, refresh_fails) ==
  IF InteractionMissing(interaction) # ""
  THEN /\ res' = Threw(op, t, args, 0, InteractionMissing(interaction))
       /\ UNCHANGED <<tables, now, stage_fk, calls>>
  ELSE IF ~FkHolds(interaction.contactId, crm_contacts)
  THEN /\ res' = Threw(op, t, args, 1, FkViolation)
       /\ UNCHANGED <<tables, now, stage_fk, calls>>
  ELSE /\ serial.interactions < MaxInteractionId
       /\ Clock <= MaxClock
       /\ LET row == db_addInteractionRow(t, serial.interactions + 1, interaction, Clock)
              upd == IF refresh_fails
                     THEN [ok |-> FALSE, err |-> StoreFailure, contacts |-> crm_contacts]
                     ELSE db_updateContact(crm_contacts, crm_stages, t, interaction.contactId,
                                           [lastContactAt |-> Clock], Clock)
          IN /\ crm_interactions' = crm_interactions \cup {row}
             /\ crm_contacts' = upd.contacts
             /\ now' = IF upd.ok THEN Clock ELSE now
             /\ res' = IF upd.ok
                       THEN Returned(op, t, args, 2,
                                     [row |-> row,
                                      crm_contacts |-> Embed(row.contact_id, crm_contacts)])
                       ELSE Threw(op, t, args, 2, upd.err)
       /\ serial' = [serial EXCEPT !.interactions = @ + 1]
       /\ UNCHANGED <<crm_stages, crm_tasks, stage_fk, calls>>

\* the same with a store that answers the refresh
addInteractionAs(op, t, args, interaction) ==
  addInteractionWith(op, t, args, interaction, FALSE)

\* CRM.addInteraction
addInteraction(t, interaction) == addInteractionAs("addInteraction", t, interaction, interaction)

\* the error of destructuring an options argument that was not passed
DestructureError == "TypeError: Cannot destructure property 'subject' of 'undefined'"

\* CRM.addNote: the interaction passed to addInteraction
NotePreset(contactId, content, createdBy) ==
  [contactId |-> contactId, type |-> "note", content |-> content, createdBy |-> createdBy]

\* CRM.logCall: `duration ? { duration } : {}`
CallMetadata(duration) ==
  IF Truthy(duration) THEN {<<"duration", duration>>} ELSE {}

\* CRM.logCall: the interaction passed to addInteraction
CallPreset(contactId, options) ==
  [contactId |-> contactId, type |-> "call", subject |-> options.subject,
   content |-> options.content, createdBy |-> options.createdBy,
   metadata |-> CallMetadata(options.duration)]

\* CRM.logEmail: the interaction passed to addInteraction
EmailPreset(contactId, options) ==
  [contactId |-> contactId, type |-> "email", subject |-> options.subject,
   content |-> options.content, createdBy |-> options.createdBy]

\* CRM.addNote
addNote(t, contactId, content, createdBy) ==
  LET interaction == NotePreset(contactId, content, createdBy)
  IN addInteractionAs("addNote", t, <<contactId, content, createdBy>>, interaction)

\* CRM.logCall; options.given tells whether the second argument was passed:
\* the parameter list destructures it
logCall(t, contactId, options) ==
  IF ~options.given
  THEN /\ res' = Threw("logCall", t, <<contactId, options>>, 0, DestructureError)
       /\ UNCHANGED <<tables, now, stage_fk, calls>>
  ELSE addInteractionAs("logCall", t, <<contactId, options>>, CallPreset(contactId, options))

\* CRM.logEmail
logEmail(t, contactId, options) ==
  IF ~options.given
  THEN /\ res' = Threw("logEmail", t, <<contactId, options>>, 0, DestructureError)
       /\ UNCHANGED <<tables, now, stage_fk, calls>>
  ELSE addInteractionAs("logEmail", t, <<contactId, options>>, EmailPreset(contactId, options))

\* CRM.listInteractions -> SupabaseDB.listInteractions (no filter)
listInteractions(t) ==
  /\ res' = Returned("listInteractions", t, <<>>, 1,
                     {[row |-> r, crm_contacts |-> Embed(r.contact_id, crm_contacts)] :
                        r \in {x \in crm_interactions : x.agent_id = t}})
  /\ UNCHANGED <<tables, now, stage_fk, calls>>

\* SupabaseDB.updateInteraction: fieldMap (the columns the model keeps)
interactionFieldMap == [type |-> "type"]

\* SupabaseDB.updateInteraction: updateData built from the update bag
InteractionUpdateData(updates) == UpdateData(interactionFieldMap, updates)

\* .update(data).eq('id', id).eq('agent_id', t).select().single() on
\* crm_interactions, for a payload with columns
UpdateInteractionRows(I, t, id, data) ==
  LET hit == {r \in I : r.id = id /\ r.agent_id = t}
  IN IF InheritedColumn \in DOMAIN data
     THEN [ok |-> FALSE, err |-> UnknownColumn, rows |-> I]
     ELSE IF hit = {} THEN [ok |-> FALSE, err |-> NoRows, rows |-> I]
     ELSE [ok |-> TRUE, err |-> "", rows |-> {IF r \in hit THEN Merge(r, data) ELSE r : r \in I}]

\* the outcomes of .update(data)...single(): for a payload without columns
\* ({}) the source does not fix the outcome: the store either returns the
\* row untouched, or runs no UPDATE and returns no row, which .single()
\* turns into an error
UpdateOutcomes(r, data) ==
  {r} \cup IF DOMAIN data = {} THEN {[r EXCEPT !.ok = FALSE, !.err = NoRows]} ELSE {}

\* CRM.updateInteraction -> SupabaseDB.updateInteraction
updateInteraction(t, id, updates) ==
  LET data == InteractionUpdateData(updates)
  IN \E r \in UpdateOutcomes(UpdateInteractionRows(crm_interactions, t, id, data), data) :
       /\ crm_interactions' = r.rows
       /\ res' = IF r.ok
                 THEN Returned("updateInteraction", t, <<id, updates>>, 1,
                               {[row |-> x, crm_contacts |-> Embed(x.contact_id, crm_contacts)] :
                                  x \in ById(r.rows, id)})
                 ELSE Threw("updateInteraction", t, <<id, updates>>, 1, r.err)
       /\ UNCHANGED <<crm_stages, crm_contacts, crm_tasks, serial, now, stage_fk, calls>>

\* CRM.deleteInteraction -> SupabaseDB.deleteInteraction: a delete that matches
\* no row is no error for the store
deleteInteraction(t, id) ==
  /\ crm_interactions' = {r \in crm_interactions : ~(r.id = id /\ r.agent_id = t)}
  /\ res' = Returned("deleteInteraction", t, <<id>>, 1, [deleted |-> TRUE])
  /\ UNCHANGED <<crm_stages, crm_contacts, crm_tasks, serial, now, stage_fk, calls>>

(***************************************************************************)
(* TASKS                                                                   *)
(***************************************************************************)
\* SupabaseDB.addTask: the inserted row; completed, completed_at and created_at
\* are not sent and take the schema's defaults
db_addTaskRow(t, id, task, clock) ==
  [id |-> id,
   agent_id |-> t,
   contact_id |-> OrNull(task.contactId),
   title |-> task.title,
   due_at |-> OrNull(task.dueAt),
   completed |-> FALSE,
   completed_at |-> NULL,
   created_at |-> clock]

\* SupabaseDB.completeTask: the columns written
CompleteData(clock) == [completed |-> TRUE, completed_at |-> clock]

\* an uncompleteTask that clears the flag and keeps the timestamp
UncompleteDataFlagOnly == [completed |-> FALSE]

\* SupabaseDB.uncompleteTask: the columns written
UncompleteData == [completed |-> FALSE, completed_at |-> NULL]

\* SupabaseDB.updateTask: fieldMap (the columns the model keeps)
taskFieldMap == [title |-> "title", dueAt |-> "due_at", contactId |-> "contact_id"]

\* SupabaseDB.updateTask: updateData built from the update bag
TaskUpdateData(updates) == UpdateData(taskFieldMap, updates)

\* .update(data).eq('id', id).eq('agent_id', t).select().single() on crm_tasks
UpdateTaskRows(T, C, t, id, data) ==
  LET hit == {r \in T : r.id = id /\ r.agent_id = t}
  IN IF InheritedColumn \in DOMAIN data
     THEN [ok |-> FALSE, err |-> UnknownColumn, tasks |-> T]
     ELSE IF hit = {} THEN [ok |-> FALSE, err |-> NoRows, tasks |-> T]
     ELSE IF "contact_id" \in DOMAIN data /\ ~FkHolds(data.contact_id, C)
          THEN [ok |-> FALSE, err |-> FkViolation, tasks |-> T]
          ELSE [ok |-> TRUE, err |-> "",
                tasks |-> {IF r \in hit THEN Merge(r, data) ELSE r : r \in T}]

\* a task row as the client returns it, with its embedded contact
WithContact(r, C) == [row |-> r, crm_contacts |-> Embed(r.contact_id, C)]

\* CRM.addTask
addTask(t, task, maxId) ==
  IF task.title = ABSENT
  THEN /\ res' = Threw("addTask", t, task, 0, "Task title is required")
       /\ UNCHANGED <<tables, now, stage_fk, calls>>
  ELSE IF ~FkHolds(OrNull(task.contactId), crm_contacts)
  THEN /\ res' = Threw("addTask", t, task, 1, FkViolation)
       /\ UNCHANGED <<tables, now, stage_fk, calls>>
  ELSE /\ serial.tasks < maxId
       /\ Clock <= MaxClock
       /\ LET row == db_addTaskRow(t, serial.tasks + 1, task, Clock)
          IN /\ crm_tasks' = crm_tasks \cup {row}
             /\ res' = Returned("addTask", t, task, 1, WithContact(row, crm_contacts))
       /\ serial' = [serial EXCEPT !.tasks = @ + 1]
       /\ now' = Clock
       /\ UNCHANGED <<crm_stages, crm_contacts, crm_interactions, stage_fk, calls>>

\* the facade methods that end in one update of a task row
TaskWrite(op, t, id, args, r, clock) ==
  /\ crm_tasks' = r.tasks
  /\ now' = IF r.ok THEN clock ELSE now
  /\ res' = IF r.ok
            THEN Returned(op, t, args, 1,
                          {WithContact(x, crm_contacts) : x \in ById(r.tasks, id)})
            ELSE Threw(op, t, args, 1, r.err)
  /\ UNCHANGED <<crm_stages, crm_contacts, crm_interactions, serial, stage_fk, calls>>

\* CRM.completeTask
completeTask(t, id) ==
  /\ Clock <= MaxClock
  /\ TaskWrite("completeTask", t, id, <<id>>,
               UpdateTaskRows(crm_tasks, crm_contacts, t, id, CompleteData(Clock)), Clock)

\* CRM.uncompleteTask
uncompleteTask(t, id) ==
  TaskWrite("uncompleteTask", t, id, <<id>>,
            UpdateTaskRows(crm_tasks, crm_contacts, t, id, UncompleteData), now)

\* CRM.updateTask
updateTask(t, id, updates) ==
  LET data == TaskUpdateData(updates)
  IN \E r \in UpdateOutcomes(UpdateTaskRows(crm_tasks, crm_contacts, t, id, data), data) :
       TaskWrite("updateTask", t, id, <<id, updates>>, r, now)

\* the min of two numbers
Min(a, b) == IF a <= b THEN a ELSE b

\* .order('due_at', { ascending: true, nullsFirst: true })
DueBeforeNullsFirst(a, b) ==
  a.due_at # b.due_at /\ (a.due_at = NULL \/ (b.due_at # NULL /\ a.due_at < b.due_at))

\* .order('due_at', { ascending: true, nullsFirst: false }): row a sorts
\* strictly before row b
DueBefore(a, b) ==
  a.due_at # NULL /\ (b.due_at = NULL \/ a.due_at < b.due_at)

\* .order('completed', { ascending: true }) then by due_at: row a sorts
\* strictly before row b (false sorts before true)
TaskBefore(a, b) ==
  IF a.completed # b.completed THEN b.completed ELSE DueBefore(a, b)

RECURSIVE TaskOrders(_)
\* every order the store may return the rows S in: rows that the two sort
\* keys do not separate come in any order
TaskOrders(S) ==
  IF S = {} THEN {<<>>}
  ELSE UNION {{<<r>> \o s : s \in TaskOrders(S \ {r})} :
               r \in {x \in S : \A y \in S : ~TaskBefore(y, x)}}

\* SupabaseDB.listTasks: the rows that pass the filters; completed is
\* "undefined", "true" or "false"
TaskFilter(T, t, options) ==
  {r \in T : /\ r.agent_id = t
             /\ Truthy(options.contactId) => r.contact_id = options.contactId
             /\ options.completed # "undefined" => r.completed = (options.completed = "true")
             /\ Truthy(options.dueBefore) => (r.due_at # NULL /\ r.due_at <= options.dueBefore)}

\* .limit(n) when options.limit is truthy
Limit(s, limit) == IF Truthy(limit) THEN SubSeq(s, 1, Min(limit, Len(s))) ELSE s

\* SupabaseDB.listTasks: the possible results
db_listTasks(T, C, t, options) ==
  {[i \in 1..Len(Limit(s, options.limit)) |-> WithContact(s[i], C)] :
     s \in TaskOrders(TaskFilter(T, t, options))}

\* listTasks() without options
NoTaskFilter ==
  [contactId |-> UNDEFINED, completed |-> "undefined", dueBefore |-> UNDEFINED,
   limit |-> UNDEFINED]

\* CRM.listTasks -> SupabaseDB.listTasks
listTasks(t, options) ==
  /\ \E data \in db_listTasks(crm_tasks, crm_contacts, t, options) :
       res' = Returned("listTasks", t, options, 1, data)
  /\ UNCHANGED <<tables, now, stage_fk, calls>>

\* CRM.deleteTask -> SupabaseDB.deleteTask: a delete that matches no row is no
\* error for the store
deleteTask(t, id) ==
  /\ crm_tasks' = {r \in crm_tasks : ~(r.id = id /\ r.agent_id = t)}
  /\ res' = Returned("deleteTask", t, <<id>>, 1, [deleted |-> TRUE])
  /\ UNCHANGED <<crm_stages, crm_contacts, crm_interactions, serial, now, stage_fk, calls>>

(***************************************************************************)
(* STATS                                                                   *)
(***************************************************************************)
\* parseFloat(c.deal_value) || 0
DealNumber(v) == IF v = NULL THEN 0 ELSE v

\* contacts.reduce((sum, c) => sum + (parseFloat(c.deal_value) || 0), 0)
DealSum(contacts) == SumOver(contacts, [c \in contacts |-> DealNumber(c.deal_value)])

\* a getPipelineStats whose contact query has no is_active filter
AllContactsOf(C, t) == {c \in C : c.agent_id = t}

\* SupabaseDB.getPipelineStats: the contacts fetched
ActiveContacts(C, t) == {c \in C : c.agent_id = t /\ c.is_active = TRUE}

\* SupabaseDB.getPipelineStats: the bucket of one stage
StageBucket(stage, contacts) ==
  LET stageContacts == {c \in contacts : c.stage_id = stage.id}
  IN [id |-> stage.id, name |-> stage.name, position |-> stage.position,
      count |-> Cardinality(stageContacts), value |-> DealSum(stageContacts)]

\* SupabaseDB.getPipelineStats: the contacts of the Unstaged bucket
UnstagedContacts(contacts) == {c \in contacts : ~Truthy(c.stage_id)}

\* SupabaseDB.getPipelineStats: the report computed from the two query results
PipelineStats(stages, contacts) ==
  LET pipeline == [i \in 1..Len(stages) |-> StageBucket(stages[i], contacts)]
      unstagedContacts == UnstagedContacts(contacts)
  IN [stages |-> IF Cardinality(unstagedContacts) > 0
                 THEN << [id |-> NULL, name |-> "Unstaged", position |-> 0,
                          count |-> Cardinality(unstagedContacts),
                          value |-> DealSum(unstagedContacts)] >> \o pipeline
                 ELSE pipeline,
      totalContacts |-> Cardinality(contacts),
      totalValue |-> DealSum(contacts)]

\* CRM.getPipelineStats
getPipelineStats(t) ==
  /\ \E stages \in db_listStages(crm_stages, t) :
       res' = Returned("getPipelineStats", t, <<>>, 2,
                       PipelineStats(stages, ActiveContacts(crm_contacts, t)))
  /\ UNCHANGED <<tables, now, stage_fk, calls>>

\* the three queries of getActivityStats
ActivityQueries == {"interactions", "tasks", "contacts"}

\* the tenant's rows whatever their creation time
ActivityRowsAll(T, t, since, failed) ==
  IF failed THEN {} ELSE {r \in T : r.agent_id = t}

\* SupabaseDB.getActivityStats: `x.data || []` of one query: the tenant's rows
\* created since the start of the period; none when the store answered the
\* query with an error (data is null then)
ActivityRows(T, t, since, failed) ==
  IF failed THEN {} ELSE {r \in T : r.agent_id = t /\ r.created_at >= since}

\* SupabaseDB.getActivityStats: the report computed from the three answers
ActivityStats(days, interactions, tasks, contacts) ==
  [period |-> days,
   interactions |-> [total |-> Cardinality(interactions),
                     byType |-> [ty \in {i.type : i \in interactions} |->
                                   Cardinality({i \in interactions : i.type = ty})]],
   tasks |-> [created |-> Cardinality(tasks),
              completed |-> Cardinality({x \in tasks : x.completed})],
   contacts |-> [created |-> Cardinality(contacts),
                 active |-> Cardinality({c \in contacts : c.is_active})]]

\* CRM.getActivityStats -> SupabaseDB.getActivityStats; store_errors are the
\* queries that the store answers with an error during this call.  The period
\* starts `days` before the clock value read by the call.
getActivityStats(t, days, store_errors) ==
  LET since == Clock - days
  IN /\ res' = Returned("getActivityStats", t,
                        [days |-> days, store_errors |-> store_errors], 3,
                        ActivityStats(days,
                          ActivityRows(crm_interactions, t, since, "interactions" \in store_errors),
                          ActivityRows(crm_tasks, t, since, "tasks" \in store_errors),
                          ActivityRows(crm_contacts, t, since, "contacts" \in store_errors)))
     /\ UNCHANGED <<tables, now, stage_fk, calls>>

(***************************************************************************)
(* Stage lifecycle: seeding, creating, deleting and listing stages.        *)
(***************************************************************************)
NextInit ==
  \E t \in Tenants :
    \/ initializeDefaultStages(t, MaxStageIdInit)
    \/ createStage(t, "Discovery", UNDEFINED, MaxCustomStages)
    \/ \E id \in 1..MaxStageIdInit : deleteStage(t, id)

SpecInit == InitStages /\ [][NextInit]_vars

(***************************************************************************)
(* Stage ordering: creating, deleting, reordering and listing stages.      *)
(***************************************************************************)
NextReorder ==
  \E t \in Tenants :
    \/ createStage(t, "Discovery", UNDEFINED, MaxStageIdReorder)
    \/ \E id \in 1..MaxStageIdReorder : deleteStage(t, id)
    \/ \E stageIds \in SeqsUpTo(1..MaxStageIdReorder, MaxReorderLen) : reorderStages(t, stageIds)

SpecReorder == InitStages /\ [][NextReorder]_vars

(***************************************************************************)
(* Pipeline statistics over stages and contacts of two tenants.  Creation  *)
(* alone reaches every mix the report depends on: staged, unstaged and     *)
(* inactive contacts, with and without deal value, of either tenant, in a  *)
(* stage of either tenant.                                                 *)
(***************************************************************************)
\* deal values a caller supplies
DealValues == {UNDEFINED, 25, 100}

\* the contacts a caller creates here: in no stage or in an existing stage
PipelineContacts ==
  [name : {"Acme"},
   stageId : {UNDEFINED} \cup Ids(crm_stages),
   dealValue : DealValues,
   isActive : {"undefined", "false"}]

NextPipeline ==
  \E t \in Tenants :
    \/ createStage(t, "Lead", UNDEFINED, MaxStageId)
    \/ \E contact \in PipelineContacts : createContact(t, contact, MaxContactIdPipeline)
    \/ getPipelineStats(t)

SpecPipeline == InitStages /\ [][NextPipeline]_vars

(***************************************************************************)
(* Two tenants working on the shared tables: every kind of row, the        *)
(* references between them, the deletes and the reads.                     *)
(***************************************************************************)
IsolationContacts ==
  [name : {"Acme"}, stageId : {UNDEFINED} \cup 1..MaxStageId,
   dealValue : {UNDEFINED}, isActive : {"undefined"}]

IsolationTasks ==
  [title : {"Follow up"}, contactId : {UNDEFINED} \cup 1..MaxContactId, dueAt : {UNDEFINED}]

IsolationInteractions == [contactId : 1..MaxContactId, type : {"note"}, createdBy : {"iris"}]

NoFilter == [stageId |-> UNDEFINED, isActive |-> "undefined"]

NextIsolation ==
  \E t \in Tenants :
    \/ createStage(t, "Lead", UNDEFINED, MaxStageId)
    \/ \E id \in 1..MaxStageId : deleteStage(t, id)
    \/ \E contact \in IsolationContacts : createContact(t, contact, MaxContactId)
    \/ \E id \in 1..MaxContactId : deleteContact(t, id)
    \/ \E id \in 1..MaxContactId : getContact(t, id)
    \/ \E task \in IsolationTasks : addTask(t, task, MaxTaskId)
    \/ \E interaction \in IsolationInteractions : addInteraction(t, interaction)
    \/ listContacts(t, NoFilter)
    \/ listTasks(t, NoTaskFilter)
    \/ listInteractions(t)

SpecIsolation == Init /\ [][NextIsolation]_vars

(***************************************************************************)
(* Stage transitions of contacts.                                          *)
(***************************************************************************)
TransitionContacts ==
  [name : {"Acme"}, stageId : {UNDEFINED} \cup 1..MaxStageId,
   dealValue : {UNDEFINED}, isActive : {"undefined"}]

\* update bags as the command line builds them
TransitionUpdates ==
  {[stageId |-> x] : x \in 1..MaxStageId} \cup {[dealValue |-> 25]}

NextTransitions ==
  \E t \in Tenants :
    \/ createStage(t, "Lead", UNDEFINED, MaxStageId)
    \/ \E id \in 1..MaxStageId : deleteStage(t, id)
    \/ \E contact \in TransitionContacts : createContact(t, contact, MaxContactId)
    \/ \E id \in 1..MaxContactId, stageId \in 1..MaxStageId : moveStage(t, id, stageId)
    \/ \E id \in 1..MaxContactId, updates \in TransitionUpdates : updateContact(t, id, updates)

SpecTransitions == Init /\ [][NextTransitions]_vars

(***************************************************************************)
(* Calls with required fields present or absent.                           *)
(***************************************************************************)
ValidationInteractions ==
  [contactId : {UNDEFINED} \cup 1..MaxContactId, type : {ABSENT, "note"},
   createdBy : {ABSENT, "iris"}]

ValidationContacts ==
  [name : {ABSENT, "Acme"}, stageId : {UNDEFINED}, dealValue : {UNDEFINED},
   isActive : {"undefined"}]

ValidationTasks ==
  [title : {ABSENT, "Follow up"}, contactId : {UNDEFINED} \cup 1..MaxContactId,
   dueAt : {UNDEFINED}]

\* validation precedes everything tenant-specific: one client, bound to "A"
NextValidation ==
  \/ \E name \in {ABSENT, "Lead"} : createStage("A", name, UNDEFINED, MaxStageId)
  \/ \E contact \in ValidationContacts : createContact("A", contact, MaxContactId)
  \/ \E interaction \in ValidationInteractions : addInteraction("A", interaction)
  \/ \E task \in ValidationTasks : addTask("A", task, MaxTaskId)

SpecValidation == InitStages /\ [][NextValidation]_vars

(***************************************************************************)
(* Task lifecycle.                                                         *)
(***************************************************************************)
LifecycleTasks == [title : {"Follow up"}, contactId : {UNDEFINED}, dueAt : {UNDEFINED}]

\* update bags: a recognized key alone, and with the unrecognized 'completed'
LifecycleUpdates == {[title |-> "Renamed"], [title |-> "Renamed", completed |-> TRUE]}

NextTasks ==
  \E t \in Tenants :
    \/ \E task \in LifecycleTasks : addTask(t, task, MaxTaskId)
    \/ \E id \in 1..MaxTaskId : completeTask(t, id)
    \/ \E id \in 1..MaxTaskId : uncompleteTask(t, id)
    \/ \E id \in 1..MaxTaskId, updates \in LifecycleUpdates : updateTask(t, id, updates)

SpecTasks == InitStages /\ [][NextTasks]_vars

(***************************************************************************)
(* Calls addressed at an id: of the caller's tenant, of the other tenant,  *)
(* or of no row at all.                                                    *)
(***************************************************************************)
AddressedContacts ==
  [name : {"Acme"}, stageId : {UNDEFINED}, dealValue : {UNDEFINED}, isActive : {"undefined"}]

AddressedTasks == [title : {"Follow up"}, contactId : {UNDEFINED}, dueAt : {UNDEFINED}]

AddressedInteractions == [contactId : 1..MaxContactId, type : {"note"}, createdBy : {"iris"}]

NextAddressed ==
  \E t \in Tenants :
    \/ createStage(t, "Lead", UNDEFINED, MaxStageId)
    \/ \E contact \in AddressedContacts : createContact(t, contact, MaxContactId)
    \/ \E interaction \in AddressedInteractions : addInteraction(t, interaction)
    \/ \E task \in AddressedTasks : addTask(t, task, MaxTaskId)
    \/ \E id \in 1..MaxContactId + 1 :
         \/ getContact(t, id)
         \/ updateContact(t, id, [dealValue |-> 25])
         \/ \E stageId \in 1..MaxStageId : moveStage(t, id, stageId)
         \/ deleteContact(t, id)
    \/ \E id \in 1..MaxStageId + 1 : deleteStage(t, id)
    \/ \E id \in 1..MaxInteractionId + 1 :
         \/ updateInteraction(t, id, [type |-> "call"])
         \/ deleteInteraction(t, id)
    \/ \E id \in 1..MaxTaskId + 1 :
         \/ updateTask(t, id, [title |-> "Renamed"])
         \/ completeTask(t, id)
         \/ uncompleteTask(t, id)
         \/ deleteTask(t, id)

SpecAddressed == Init /\ [][NextAddressed]_vars

(***************************************************************************)
(* Activity statistics over a store that may answer a query with an error. *)
(***************************************************************************)
\* lengths of the period, in clock ticks
ActivityDays == {1, 2}

ActivityContacts ==
  [name : {"Acme"}, stageId : {UNDEFINED}, dealValue : {UNDEFINED},
   isActive : {"undefined", "false"}]

ActivityTasks == [title : {"Follow up"}, contactId : {UNDEFINED}, dueAt : {UNDEFINED}]

ActivityInteractions ==
  [contactId : 1..MaxContactId, type : {"note", "call"}, createdBy : {"iris"}]

NextActivity ==
  \E t \in Tenants :
    \/ \E contact \in ActivityContacts : createContact(t, contact, MaxContactId)
    \/ \E interaction \in ActivityInteractions : addInteraction(t, interaction)
    \/ \E task \in ActivityTasks : addTask(t, task, MaxTaskId)
    \/ \E id \in 1..MaxTaskId : completeTask(t, id)
    \/ \E days \in ActivityDays, store_errors \in SUBSET ActivityQueries :
         getActivityStats(t, days, store_errors)

SpecActivity == InitStages /\ [][NextActivity]_vars

(***************************************************************************)
(* The shorthands for logging a note, a call or an email, next to          *)
(* addInteraction, with fields present or absent, the options argument     *)
(* passed or not, and a call duration left out, zero or positive.          *)
(***************************************************************************)
PresetContacts ==
  [name : {"Acme"}, stageId : {UNDEFINED}, dealValue : {UNDEFINED}, isActive : {"undefined"}]

PresetContactIds == {UNDEFINED} \cup 1..MaxContactId

\* the call without a second argument
NoOptions ==
  [given |-> FALSE, subject |-> ABSENT, content |-> ABSENT, createdBy |-> ABSENT,
   duration |-> UNDEFINED]

PresetOptions ==
  {NoOptions} \cup
  [given : {TRUE}, subject : {ABSENT, "Intro"}, content : {"Spoke"},
   createdBy : {ABSENT, "iris"}, duration : {UNDEFINED, 0, 5}]

PresetInteractions ==
  [contactId : PresetContactIds, type : {"call"}, subject : {ABSENT, "Intro"},
   content : {"Spoke"}, createdBy : {ABSENT, "iris"}, metadata : {{}, {<<"duration", 5>>}}]

NextPresets ==
  \E t \in Tenants :
    \/ \E contact \in PresetContacts : createContact(t, contact, MaxContactId)
    \/ \E interaction \in PresetInteractions : addInteraction(t, interaction)
    \/ \E contactId \in PresetContactIds, content \in {ABSENT, "Spoke"},
          createdBy \in {ABSENT, "iris"} : addNote(t, contactId, content, createdBy)
    \/ \E contactId \in PresetContactIds, options \in PresetOptions :
         logCall(t, contactId, options)
    \/ \E contactId \in PresetContactIds, options \in PresetOptions :
         logEmail(t, contactId, options)

SpecPresets == InitStages /\ [][NextPresets]_vars

(***************************************************************************)
(* Logging interactions on contacts of either tenant while the store       *)
(* answers the refresh of last_contact_at or fails it.                     *)
(***************************************************************************)
RefreshContacts ==
  [name : {"Acme"}, stageId : {UNDEFINED}, dealValue : {UNDEFINED},
   isActive : {"undefined", "false"}]

RefreshInteractions ==
  [contactId : {UNDEFINED} \cup 1..MaxContactId, type : {"note", "call"},
   createdBy : {ABSENT, "iris"}]

NextRefresh ==
  \E t \in Tenants :
    \/ \E contact \in RefreshContacts : createContact(t, contact, MaxContactId)
    \/ \E interaction \in RefreshInteractions, refresh_fails \in BOOLEAN :
         addInteractionWith("addInteraction", t, interaction, interaction, refresh_fails)
    \/ listInteractions(t)

SpecRefresh == InitStages /\ [][NextRefresh]_vars

(***************************************************************************)
(* Reordering that stops halfway: stages created and deleted by either     *)
(* tenant, reordered with lists that may name ids of no stage of the       *)
(* tenant, by a store that may fail the last of the updates.               *)
(***************************************************************************)
NextPartial ==
  \E t \in Tenants :
    \/ createStage(t, "Discovery", UNDEFINED, MaxStageIdReorder)
    \/ \E id \in 1..MaxStageIdReorder : deleteStage(t, id)
    \/ \E stageIds \in SeqsUpTo(1..MaxStageIdReorder, MaxReorderLen) :
         \E fails_at \in {0, Len(stageIds)} : reorderStagesWith(t, stageIds, fails_at)

SpecPartial == InitStages /\ [][NextPartial]_vars

(***************************************************************************)
(* Two clients creating stages without position, for either tenant, their  *)
(* calls interleaved at the await between the read and the insert.         *)
(***************************************************************************)
NextRace ==
  \E c \in Callers, t \in Tenants :
    \/ createStageRead(c, t, "Discovery")
    \/ createStageInsert(c, MaxStageIdRace)
    \/ listStages(t)

SpecRace == InitStages /\ [][NextRace]_vars

(***************************************************************************)
(* One client seeding the default stages, call after call, with a store    *)
(* that may fail any insert of the loop.                                   *)
(***************************************************************************)
NextSeed ==
  \E t \in Tenants :
    \/ initializeRead("c1", t)
    \/ \E fails \in BOOLEAN : initializeInsert("c1", MaxStageIdInit, fails)
    \/ listStages(t)

SpecSeed == InitStages /\ [][NextSeed]_vars

(***************************************************************************)
(* Two clients seeding the default stages, one call each, the calls        *)
(* interleaved at every await, with a store that fails nothing.            *)
(***************************************************************************)
NextSeedRace ==
  \E c \in Callers, t \in Tenants :
    \/ calls[c].pc = "idle" /\ initializeRead(c, t)
    \/ initializeInsert(c, MaxStageIdInit, FALSE)

SpecSeedRace == InitStages /\ [][NextSeedRace]_vars

(***************************************************************************)
(* The writes that store a reference, by clients of two tenants: contacts  *)
(* referencing stages, interactions and tasks referencing contacts.        *)
(***************************************************************************)
ReferenceContacts ==
  [name : {"Acme"}, stageId : {UNDEFINED} \cup 1..MaxStageId,
   dealValue : {UNDEFINED}, isActive : {"undefined"}]

ReferenceTasks ==
  [title : {"Follow up"}, contactId : {UNDEFINED} \cup 1..MaxContactId, dueAt : {UNDEFINED}]

ReferenceInteractions == [contactId : 1..MaxContactId, type : {"note"}, createdBy : {"iris"}]

NextReferences ==
  \E t \in Tenants :
    \/ createStage(t, "Lead", UNDEFINED, MaxStageId)
    \/ \E contact \in ReferenceContacts : createContact(t, contact, MaxContactId)
    \/ \E id \in 1..MaxContactId, stageId \in 1..MaxStageId :
         updateContact(t, id, [stageId |-> stageId])
    \/ \E id \in 1..MaxContactId, stageId \in 1..MaxStageId : moveStage(t, id, stageId)
    \/ \E interaction \in ReferenceInteractions : addInteraction(t, interaction)
    \/ \E task \in ReferenceTasks : addTask(t, task, MaxTaskId)
    \/ \E id \in 1..MaxTaskId, contactId \in 1..MaxContactId :
         updateTask(t, id, [contactId |-> contactId])

SpecReferences == Init /\ [][NextReferences]_vars

(***************************************************************************)
(* The period of the activity report: tasks and contacts created and       *)
(* completed at different ticks, reported over periods of one and two      *)
(* ticks, with all queries answered or all failed.                         *)
(***************************************************************************)
NextWindow ==
  \E t \in Tenants :
    \/ \E contact \in ActivityContacts : createContact(t, contact, MaxContactId)
    \/ \E task \in ActivityTasks : addTask(t, task, MaxTaskId)
    \/ \E id \in 1..MaxTaskId : completeTask(t, id)
    \/ \E days \in ActivityDays, store_errors \in {{}, ActivityQueries} :
         getActivityStats(t, days, store_errors)

SpecWindow == InitStages /\ [][NextWindow]_vars

(***************************************************************************)
(* Stage positions under a single caller: seeding, creating without a      *)
(* position, deleting and reordering.                                      *)
(***************************************************************************)
\* the complete id lists of the caller's stages, in every order, while the
\* stages are few
CompleteOrders ==
  IF Cardinality(crm_stages) > MaxReorderLen THEN {}
  ELSE {ids \in SeqsUpTo(Ids(crm_stages), Cardinality(crm_stages)) :
          Len(ids) = Cardinality(crm_stages) /\ Range(ids) = Ids(crm_stages)}

NextPositions ==
  \/ initializeDefaultStages("A", MaxStageIdPositions)
  \/ createStage("A", "Discovery", UNDEFINED, MaxStageIdPositions)
  \/ \E id \in Ids(crm_stages) : deleteStage("A", id)
  \/ \E stageIds \in CompleteOrders : reorderStages("A", stageIds)

SpecPositions == InitStages /\ [][NextPositions]_vars

(***************************************************************************)
(* Creating stages with and without a position.                            *)
(***************************************************************************)
\* positions a caller supplies, or leaves out
SuppliedPositions == {UNDEFINED, 0, 5}

NextCreate ==
  \E t \in Tenants :
    \/ \E position \in SuppliedPositions :
         createStage(t, "Discovery", position, MaxStageIdReorder)
    \/ \E id \in 1..MaxStageIdReorder : deleteStage(t, id)

SpecCreate == InitStages /\ [][NextCreate]_vars

(***************************************************************************)
(* Losing and reactivating contacts.                                       *)
(***************************************************************************)
LostContacts ==
  [name : {"Acme"}, stageId : {UNDEFINED}, dealValue : {UNDEFINED},
   isActive : {"undefined", "false"}]

\* reasons a caller gives to markLost
LostReasons == {"budget", "timing"}

NextLost ==
  \E t \in Tenants :
    \/ createStage(t, "Lead", UNDEFINED, MaxStageId)
    \/ \E contact \in LostContacts : createContact(t, contact, MaxContactId)
    \/ \E id \in 1..MaxContactId, reason \in LostReasons : markLost(t, id, reason)
    \/ \E id \in 1..MaxContactId : reactivate(t, id)
    \/ \E id \in 1..MaxContactId, stageId \in 1..MaxStageId : moveStage(t, id, stageId)

SpecLost == InitStages /\ [][NextLost]_vars

(***************************************************************************)
(* Listing tasks: open and completed tasks, with and without a due time.   *)
(***************************************************************************)
\* due times a caller supplies, or leaves out
DueTimes == {UNDEFINED, 1, 2}

ListedTasks == [title : {"Follow up"}, contactId : {UNDEFINED}, dueAt : DueTimes]

ListOptions ==
  [contactId : {UNDEFINED}, completed : {"undefined", "true", "false"},
   dueBefore : {UNDEFINED, 1}, limit : {UNDEFINED, 1}]

NextList ==
  \E t \in Tenants :
    \/ \E task \in ListedTasks : addTask(t, task, MaxTaskIdList)
    \/ \E id \in 1..MaxTaskIdList : completeTask(t, id)
    \/ \E options \in ListOptions : listTasks(t, options)

SpecList == InitStages /\ [][NextList]_vars

(***************************************************************************)
(* Searching contacts.                                                     *)
(***************************************************************************)
SearchedContacts ==
  [name : {"Acme", "Bolt"}, stageId : {UNDEFINED}, dealValue : {UNDEFINED},
   isActive : {"undefined", "false"}]

\* no query, the empty string, white space only, and terms with and without
\* white space around them
SearchQueries ==
  {NoQuery, Text(<<>>), Text(<<" ">>), Text(<<" ", "\t", "\n">>),
   Text(<<"a", "c">>), Text(<<"A", "C">>), Text(<<" ", "a", "c">>), Text(<<"o">>),
   Text(<<"x">>)}

NextSearch ==
  \E t \in Tenants :
    \/ \E contact \in SearchedContacts : createContact(t, contact, MaxContactId)
    \/ \E id \in 1..MaxContactId : deleteContact(t, id)
    \/ \E query \in SearchQueries : searchContacts(t, query)

SpecSearch == InitStages /\ [][NextSearch]_vars

(***************************************************************************)
(* Updates with recognized and unrecognized keys.                          *)
(***************************************************************************)
MergedContacts ==
  [name : {"Acme"}, stageId : {UNDEFINED}, dealValue : {UNDEFINED}, isActive : {"undefined"}]

MergedTasks == [title : {"Follow up"}, contactId : {UNDEFINED}, dueAt : {UNDEFINED}]

MergedInteractions == [contactId : 1..MaxContactId, type : {"note"}, createdBy : {"iris"}]

\* update bags: a recognized key, a recognized and an unrecognized key, an
\* unrecognized key alone, and a key named like a method every object has
ContactBags ==
  {[dealValue |-> 25], [dealValue |-> 25, stageEnteredAt |-> 9], [stageEnteredAt |-> 9],
   [dealValue |-> 25, toString |-> "x"]}

TaskBags ==
  {[title |-> "Renamed"], [title |-> "Renamed", completed |-> TRUE], [completed |-> TRUE],
   [title |-> "Renamed", toString |-> "x"]}

InteractionBags ==
  {[type |-> "call"], [type |-> "call", createdBy |-> "joe"], [createdBy |-> "joe"],
   [type |-> "call", toString |-> "x"]}

NextMerge ==
  \E t \in Tenants :
    \/ \E contact \in MergedContacts : createContact(t, contact, MaxContactId)
    \/ \E interaction \in MergedInteractions : addInteraction(t, interaction)
    \/ \E task \in MergedTasks : addTask(t, task, MaxTaskId)
    \/ \E id \in 1..MaxContactId, updates \in ContactBags : updateContact(t, id, updates)
    \/ \E id \in 1..MaxInteractionId, updates \in InteractionBags :
         updateInteraction(t, id, updates)
    \/ \E id \in 1..MaxTaskId, updates \in TaskBags : updateTask(t, id, updates)

SpecMerge == InitStages /\ [][NextMerge]_vars

(***************************************************************************)
(* CLAIMS                                                                  *)
(***************************************************************************)
\* the result of a successful call of the given method
Ok(op) == res.op = op /\ res.ok

\* the embedded rows of a returned row
Embedded(x) ==
  IF "crm_stages" \in DOMAIN x THEN x.crm_stages ELSE x.crm_contacts

\* the rows of tenants other than t in the four tables
OthersRows(t, S, C, I, T) ==
  <<{r \in S : r.agent_id # t}, {r \in C : r.agent_id # t},
    {r \in I : r.agent_id # t}, {r \in T : r.agent_id # t}>>

\* the rows of the four tables whose id was not in the table before
NewRows(S, C, I, T) ==
  {r \in S : r.id > serial.stages} \cup {r \in C : r.id > serial.contacts}
    \cup {r \in I : r.id > serial.interactions} \cup {r \in T : r.id > serial.tasks}

\* C1: no list or get issued under tenant A returns a row, or an embedded
\* stage / contact display row, that was created under another tenant.
IsolatedReads ==
  (res.op \in {"listContacts", "getContact", "listTasks", "listInteractions"} /\ res.ok)
    => \A x \in (IF res.op = "listTasks" THEN Range(res.data) ELSE res.data) :
         /\ x.row.agent_id = res.agent
         /\ \A e \in Embedded(x) : e.agent_id = res.agent

\* C2: every row a client of tenant A inserts carries agent_id A, and no call
\* of a client of tenant A changes or removes a row of another tenant, the
\* cascades of deleteContact and deleteStage included.
IsolatedWrites ==
  [][\A t \in Tenants :
       res'.agent = t =>
         /\ \A r \in NewRows(crm_stages', crm_contacts', crm_interactions', crm_tasks') :
              r.agent_id = t
         /\ OthersRows(t, crm_stages', crm_contacts', crm_interactions', crm_tasks')
              = OthersRows(t, crm_stages, crm_contacts, crm_interactions, crm_tasks)]_vars

\* the buckets of a report as a function on their index
BucketSum(buckets, field) ==
  SumSeq(buckets, [b \in Range(buckets) |-> b[field]])

\* C3: in every report of getPipelineStats the counts of all returned buckets
\* add up to totalContacts and their values add up to totalValue.
StatsAddUp ==
  Ok("getPipelineStats") =>
    /\ BucketSum(res.data.stages, "count") = res.data.totalContacts
    /\ BucketSum(res.data.stages, "value") = res.data.totalValue

\* the deal values of a set of contacts added up, null counted as 0
ValueOf(contacts) ==
  SumOver(contacts, [c \in contacts |-> IF c.deal_value = NULL THEN 0 ELSE c.deal_value])

SixDefaults ==
  {<<"Lead", 1>>, <<"Contacted", 2>>, <<"Qualified", 3>>, <<"Proposal", 4>>,
   <<"Negotiation", 5>>, <<"Won", 6>>}

\* C5: initializeDefaultStages on a tenant without stages creates exactly the
\* six default stages at positions 1..6 and returns them with status
\* 'initialized'; on a tenant with at least one stage it changes no stage and
\* returns the existing stages with status 'already_initialized'.
InitIdempotent ==
  [][\A t \in Tenants :
       (res'.op = "initializeDefaultStages" /\ res'.agent = t) =>
         LET before == {r \in crm_stages : r.agent_id = t}
             after == {r \in crm_stages' : r.agent_id = t}
         IN /\ res'.ok
            /\ Range(res'.data.stages) = after
            /\ Len(res'.data.stages) = Cardinality(after)
            /\ crm_stages' \ after = crm_stages \ before
            /\ IF before = {}
               THEN /\ res'.data.status = "initialized"
                    /\ Cardinality(after) = 6
                    /\ {<<r.name, r.position>> : r \in after} = SixDefaults
               ELSE /\ res'.data.status = "already_initialized"
                    /\ after = before]_vars

\* C5 witness: the second call on a freshly seeded tenant: it answers
\* 'already_initialized' with the six default stages.
InitIdempotentWitness ==
  /\ Ok("initializeDefaultStages")
  /\ res.data.status = "already_initialized"
  /\ {<<r.name, r.position>> : r \in Range(res.data.stages)} = SixDefaults
  /\ Len(res.data.stages) = 6

\* the ids of a stage list, in its order, restricted to the listed ids
ListedOrder(stages, ids) ==
  SelectSeq([i \in 1..Len(stages) |-> stages[i].id], LAMBDA x : x \in Range(ids))

\* C6: after reorderStages(ids) returned for a list of distinct ids, the stage
\* ids[i] (i counted from 0) has position i+1, and listStages returns the
\* listed stages in the order of ids.
ReorderOrders ==
  (Ok("reorderStages") /\ \A i, j \in 1..Len(res.args) : i # j => res.args[i] # res.args[j])
    => /\ \A i \in 1..Len(res.args) :
            \E r \in crm_stages :
              r.id = res.args[i] /\ r.agent_id = res.agent /\ r.position = (i - 1) + 1
       /\ ListedOrder(res.data, res.args) = res.args
       /\ \A listed \in db_listStages(crm_stages, res.agent) :
            ListedOrder(listed, res.args) = res.args

\* C6 witness: reorderStages([2, 1]) returned: stage 2 is first, stage 1 second.
ReorderOrdersWitness ==
  /\ Ok("reorderStages")
  /\ res.args = <<2, 1>>
  /\ Len(res.data) = 2 /\ res.data[1].id = 2 /\ res.data[2].id = 1

\* C7: a successful moveStage(contactId, stageId) is one store write that sets
\* the contact's stage_id to stageId and stage_entered_at to a value strictly
\* greater than before the call; a failed one writes nothing.
MoveStageAtomic ==
  [][res'.op = "moveStage" =>
       /\ res'.queries = 1
       /\ ~res'.ok => crm_contacts' = crm_contacts
       /\ res'.ok =>
            \E c \in crm_contacts :
              /\ c.id = res'.args[1] /\ c.agent_id = res'.agent
              /\ \E d \in crm_contacts' :
                   /\ d.id = c.id
                   /\ d.stage_id = res'.args[2]
                   /\ d.stage_entered_at # NULL
                   /\ c.stage_entered_at = NULL \/ d.stage_entered_at > c.stage_entered_at
                   /\ crm_contacts' \ {d} = crm_contacts \ {c}]_vars

\* C7 witness: a contact created in a stage was moved: its stage-entry
\* timestamp is later than its creation's.
MoveStageAtomicWitness ==
  /\ Ok("moveStage")
  /\ \E x \in res.data : x.row.stage_entered_at >= 2 /\ x.row.stage_id = res.args[2]

\* C8: whenever an operation changes the stage_id of a contact, that operation
\* refreshes the contact's stage_entered_at.
StageEntryFollowsStage ==
  [][\A c \in crm_contacts : \A d \in crm_contacts' :
       (d.id = c.id /\ d.stage_id # c.stage_id) =>
         /\ d.stage_entered_at # NULL
         /\ c.stage_entered_at = NULL \/ d.stage_entered_at > c.stage_entered_at]_vars

\* the required fields that the arguments of a call leave out
MissingFields(op, args) ==
  CASE op = "createStage" -> IF args.name = ABSENT THEN {"Stage name is required"} ELSE {}
    [] op = "createContact" -> IF args.name = ABSENT THEN {"Contact name is required"} ELSE {}
    [] op = "addTask" -> IF args.title = ABSENT THEN {"Task title is required"} ELSE {}
    [] op = "addInteraction" ->
         (IF args.contactId \in {NULL, UNDEFINED, 0} THEN {"Contact ID is required"} ELSE {})
         \cup (IF args.type = ABSENT THEN {"Interaction type is required"} ELSE {})
         \cup (IF args.createdBy = ABSENT THEN {"Created by is required"} ELSE {})
    [] OTHER -> {}

\* C9: a call of createStage, createContact, addInteraction or addTask that
\* leaves out a required field fails with an error naming a missing field,
\* issues no store query and changes no table.
ValidationFirst ==
  [][MissingFields(res'.op, res'.args) # {} =>
       /\ ~res'.ok
       /\ res'.err \in MissingFields(res'.op, res'.args)
       /\ res'.queries = 0
       /\ UNCHANGED tables]_vars

\* C9 witness: addInteraction without createdBy was refused while a contact
\* it could have been logged on exists.
ValidationFirstWitness ==
  /\ res.op = "addInteraction" /\ ~res.ok
  /\ res.err = "Created by is required"
  /\ res.args.contactId \in Ids(crm_contacts)
  /\ crm_interactions = {}

AddressedTable(op, S, C, I, T) ==
  CASE op = "deleteStage" -> S
    [] op \in {"getContact", "updateContact", "moveStage", "deleteContact"} -> C
    [] op \in {"updateInteraction", "deleteInteraction"} -> I
    [] OTHER -> T

\* the methods that get, update or delete one row by id
AddressedOps ==
  {"getContact", "updateContact", "moveStage", "deleteContact", "deleteStage",
   "updateInteraction", "deleteInteraction", "updateTask", "completeTask",
   "uncompleteTask", "deleteTask"}

\* C11: a get, update or delete addressed at an id that is no row of the
\* caller's tenant (no row at all, or a row of another tenant) fails with the
\* store's "no row" error and changes no table.
MissingIdFails ==
  [][(/\ res'.op \in AddressedOps
      /\ ~\E r \in AddressedTable(res'.op, crm_stages, crm_contacts, crm_interactions, crm_tasks) :
            r.id = res'.args[1] /\ r.agent_id = res'.agent)
       => /\ ~res'.ok
          /\ res'.err = NoRows
          /\ tables' = tables]_vars


\* C12: a call during which the store answered a query with an error does not
\* return a result: it fails.
StoreErrorsPropagate ==
  (res.op = "getActivityStats" /\ res.args.store_errors # {}) => ~res.ok


\* C13: every step that inserts an interaction row also sets last_contact_at
\* of the contact the row references to the time of the call.
InteractionRefreshesContact ==
  [][\A i \in crm_interactions' \ crm_interactions :
       \E c \in crm_contacts' : c.id = i.contact_id /\ c.last_contact_at = Clock]_vars


\* C14: a deleteStage(id) that succeeds while contacts reference stage id
\* removes the stage and no contact, leaves every contact that referenced the
\* stage with stage_id null, and leaves no contact referencing a stage that
\* does not exist.
DeleteStageNullsContacts ==
  [][(/\ res'.op = "deleteStage" /\ res'.ok
      /\ \E c \in crm_contacts : c.stage_id = res'.args[1])
       => /\ res'.args[1] \notin Ids(crm_stages')
          /\ Ids(crm_contacts') = Ids(crm_contacts)
          /\ \A c \in crm_contacts :
               c.stage_id = res'.args[1] =>
                 \A d \in ById(crm_contacts', c.id) : d.stage_id = NULL
          /\ \A c \in crm_contacts' : FkHolds(c.stage_id, crm_stages')]_vars


\* C15: after a deleteContact(id) that succeeds, the contact and every
\* interaction and task that referenced it are gone and the other interactions
\* and tasks are as before; after every step, every interaction and every
\* task with a contact references a contact that exists.
DeleteContactCascades ==
  [][/\ (res'.op = "deleteContact" /\ res'.ok) =>
         /\ res'.args[1] \notin Ids(crm_contacts')
         /\ crm_interactions' = {i \in crm_interactions : i.contact_id # res'.args[1]}
         /\ crm_tasks' = {x \in crm_tasks : x.contact_id # res'.args[1]}
     /\ \A i \in crm_interactions' : i.contact_id \in Ids(crm_contacts')
     /\ \A x \in crm_tasks' : FkHolds(x.contact_id, crm_contacts')]_vars


\* C16: no two stages of one tenant have the same position.
UniquePositions ==
  \A r1, r2 \in crm_stages :
    (r1.agent_id = r2.agent_id /\ r1.position = r2.position) => r1.id = r2.id


\* C17: a createStage that succeeds stores one new stage of the caller's
\* tenant; without a position its position is the number of stages the tenant
\* had at the call plus one, with a position (0 included) it is that position.
CreateStagePosition ==
  [][(res'.op = "createStage" /\ res'.ok) =>
       \E row \in crm_stages' :
         /\ crm_stages' \ crm_stages = {row}
         /\ crm_stages \subseteq crm_stages'
         /\ row = res'.data
         /\ row.agent_id = res'.agent
         /\ row.position =
              IF res'.args.position = UNDEFINED
              THEN Cardinality(StagesOf(crm_stages, res'.agent)) + 1
              ELSE res'.args.position]_vars

\* C17 witness: a tenant holds a stage created at the supplied position 0 and
\* has just created its second stage without a position, stored at 2.
CreateStagePositionWitness ==
  /\ Ok("createStage")
  /\ res.args.position = UNDEFINED
  /\ res.data.position = 2
  /\ \E r \in StagesOf(crm_stages, res.agent) : r.position = 0


\* C18: a markLost(id, reason) that succeeds leaves the contact inactive with
\* lost_reason = reason, a reactivate(id) that succeeds leaves it active with
\* lost_reason null, and after every step of createContact, markLost,
\* reactivate and moveStage every contact with a lost_reason is inactive.
LostAsAPair ==
  [][/\ (res'.op = "markLost" /\ res'.ok) =>
         \E c \in ById(crm_contacts', res'.args[1]) :
           c.is_active = FALSE /\ c.lost_reason = res'.args[2]
     /\ (res'.op = "reactivate" /\ res'.ok) =>
         \E c \in ById(crm_contacts', res'.args[1]) :
           c.is_active = TRUE /\ c.lost_reason = NoText
     /\ \A c \in crm_contacts' : c.lost_reason # NoText => c.is_active = FALSE]_vars

\* C18 witness: a contact that was marked lost and then moved to a stage: it
\* is still inactive and still has its reason.
LostAsAPairWitness ==
  /\ Ok("moveStage")
  /\ \E c \in ById(crm_contacts, res.args[1]) :
       c.lost_reason = "timing" /\ c.is_active = FALSE /\ c.stage_id = res.args[2]


\* C19: listTasks returns tasks of the caller's tenant that match the
\* filters (all of them when no limit is given), each once, every open task
\* before every completed one, and among the open and among the completed
\* tasks in ascending order of due_at with the tasks without due_at last.
ListTasksOrder ==
  Ok("listTasks") =>
    LET d == res.data
        matching == {x \in crm_tasks :
                       /\ x.agent_id = res.agent
                       /\ res.args.completed # "undefined" =>
                            x.completed = (res.args.completed = "true")
                       /\ res.args.dueBefore # UNDEFINED =>
                            (x.due_at # NULL /\ x.due_at <= res.args.dueBefore)}
    IN /\ \A i \in 1..Len(d) : d[i].row \in matching
       /\ \A i, j \in 1..Len(d) : i # j => d[i].row # d[j].row
       /\ Len(d) = IF res.args.limit = UNDEFINED THEN Cardinality(matching)
                   ELSE Min(res.args.limit, Cardinality(matching))
       /\ \A i, j \in 1..Len(d) :
            i < j =>
              /\ d[i].row.completed => d[j].row.completed
              /\ d[i].row.completed = d[j].row.completed =>
                   /\ d[i].row.due_at = NULL => d[j].row.due_at = NULL
                   /\ d[j].row.due_at # NULL => d[i].row.due_at <= d[j].row.due_at

\* C19 witness: an unfiltered list of two tasks: the open one, which has no
\* due time, comes before the completed one, which is due at 1.
ListTasksOrderWitness ==
  /\ Ok("listTasks")
  /\ res.args = NoTaskFilter
  /\ Len(res.data) = 2
  /\ res.data[1].row.due_at = NULL /\ ~res.data[1].row.completed
  /\ res.data[2].row.due_at = 1 /\ res.data[2].row.completed


\* a query that is absent, empty or made of white space only
BlankQuery(query) ==
  ~query.given \/ \A i \in 1..Len(query.text) : query.text[i] \in WhiteSpace

\* C20: searchContacts with an absent, empty or white-space-only query
\* returns the empty list and issues no store query, whatever the store holds.
BlankSearchIsEmpty ==
  (res.op = "searchContacts" /\ BlankQuery(res.args)) =>
    res.ok /\ res.data = {} /\ res.queries = 0

\* C20 witness: a white-space-only search by a tenant that has a contact.
BlankSearchIsEmptyWitness ==
  /\ Ok("searchContacts")
  /\ res.args = Text(<<" ", "\t", "\n">>)
  /\ res.data = {}
  /\ \E c \in crm_contacts : c.agent_id = res.agent


\* the field map of an update method
FieldMapOf(op) ==
  CASE op = "updateContact" -> contactFieldMap
    [] op = "updateInteraction" -> interactionFieldMap
    [] OTHER -> taskFieldMap

\* what a partial merge of the bag makes of a row: the columns of the
\* recognized keys take the values of the bag, a contact's updated_at the
\* time of the call, every other column stays
MergedRow(op, row, bag, clock) ==
  LET map == FieldMapOf(op)
      keys == DOMAIN bag \cap DOMAIN map
  IN [c \in DOMAIN row |->
        IF \E k \in keys : map[k] = c THEN bag[CHOOSE k \in keys : map[k] = c]
        ELSE IF op = "updateContact" /\ c = "updated_at" THEN clock
        ELSE row[c]]

CompletedAmongCreated ==
  res.op = "getActivityStats" =>
    LET since == Clock - res.args.days
    IN /\ "tasks" \notin res.args.store_errors =>
            res.data.tasks.completed =
              Cardinality({x \in crm_tasks : /\ x.agent_id = res.agent
                                             /\ x.created_at >= since
                                             /\ x.completed})
       /\ res.data.tasks.completed <= res.data.tasks.created
       /\ res.data.contacts.active <= res.data.contacts.created

\* a report that leaves out a task created before the cutoff and completed
\* inside the period
CompletedAmongCreatedWitness ==
  /\ res.op = "getActivityStats"
  /\ res.args.store_errors = {}
  /\ res.data.tasks.completed = 0
  /\ \E x \in crm_tasks : /\ x.agent_id = res.agent
                           /\ x.created_at < Clock - res.args.days
                           /\ x.completed
                           /\ x.completed_at >= Clock - res.args.days


\* the interaction the shorthand op stands for when called with args: the
\* type of the shorthand, the contact, subject, content and creator of the
\* call, and for a call the duration as metadata when one is supplied
StandsFor(op, args) ==
  CASE op = "addNote" ->
         [contactId |-> args[1], type |-> "note", content |-> args[2], createdBy |-> args[3]]
    [] op = "logCall" ->
         [contactId |-> args[1], type |-> "call", subject |-> args[2].subject,
          content |-> args[2].content, createdBy |-> args[2].createdBy,
          metadata |-> IF args[2].duration # UNDEFINED
                       THEN {<<"duration", args[2].duration>>} ELSE {}]
    [] op = "logEmail" ->
         [contactId |-> args[1], type |-> "email", subject |-> args[2].subject,
          content |-> args[2].content, createdBy |-> args[2].createdBy]

\* C23: every addNote, logCall or logEmail step is the step of addInteraction
\* for the interaction the shorthand stands for: the same rows written, the
\* same result and the same failure; a call stores the duration as metadata
\* whenever one is supplied and empty metadata otherwise.
PresetsOverAddInteraction ==
  [][res'.op \in {"addNote", "logCall", "logEmail"} =>
       addInteractionAs(res'.op, res'.agent, res'.args, StandsFor(res'.op, res'.args))]_vars


\* C24: an addInteraction that passes validation for an existing contact and
\* whose refresh of last_contact_at fails (the contact is not one of the
\* caller's tenant, or the store fails the refresh) fails as a whole and
\* returns no interaction, while the inserted row stays in the table and no
\* contact is changed.
RefreshFailureKeepsRow ==
  [][(/\ res'.op = "addInteraction"
      /\ InteractionMissing(res'.args) = ""
      /\ \E c \in crm_contacts : c.id = res'.args.contactId
      /\ \/ res'.err = StoreFailure
         \/ ~\E c \in crm_contacts : c.id = res'.args.contactId /\ c.agent_id = res'.agent)
     => /\ ~res'.ok
        /\ res'.data = NULL
        /\ \E row \in crm_interactions' :
             /\ row \notin crm_interactions
             /\ row.agent_id = res'.agent
             /\ row.contact_id = res'.args.contactId
             /\ crm_interactions' = crm_interactions \cup {row}
        /\ crm_contacts' = crm_contacts]_vars

\* a failed addInteraction on another tenant's contact whose row is stored
RefreshFailureKeepsRowWitness ==
  /\ res.op = "addInteraction"
  /\ ~res.ok
  /\ res.err = NoRows
  /\ \E row \in crm_interactions, c \in crm_contacts :
       /\ row.agent_id = res.agent
       /\ row.contact_id = c.id
       /\ c.agent_id # res.agent
       /\ c.last_contact_at = NULL


\* C25: a reorderStages whose list names an id that is no stage of the tenant
\* fails; and when reorderStages fails at the update of the k-th listed id,
\* the stages listed before the k-th have their new positions (the place in
\* the list), every other stage, listed later or not at all, is as it was,
\* and no result is returned.
ReorderStopsHalfway ==
  [][res'.op = "reorderStages" =>
       LET ids == res'.args
           t == res'.agent
           mine(j) == \E r \in crm_stages : r.id = ids[j] /\ r.agent_id = t
           k == res'.queries
           before(r) == {j \in 1..(k - 1) : ids[j] = r.id /\ r.agent_id = t}
       IN /\ (\E j \in 1..Len(ids) : ~mine(j)) => ~res'.ok
          /\ ~res'.ok =>
               /\ k \in 1..Len(ids)
               /\ \A j \in 1..(k - 1) : mine(j)
               /\ res'.err \in {NoRows, StoreFailure}
               /\ res'.err = NoRows => ~mine(k)
               /\ res'.data = NULL
               /\ crm_stages' =
                    {IF before(r) = {} THEN r
                     ELSE [r EXCEPT !.position =
                             CHOOSE p \in 1..Len(ids) :
                               p \in before(r) /\ \A j \in before(r) : j <= p] :
                     r \in crm_stages}]_vars

\* reorderStages([2, 1]) failed at its second update: stage 2 has the new
\* position 1, stage 1 still has position 1
ReorderStopsHalfwayWitness ==
  /\ res.op = "reorderStages"
  /\ ~res.ok
  /\ res.args = <<2, 1>>
  /\ res.queries = 2
  /\ \E a, b \in crm_stages :
       /\ a.id = 1 /\ b.id = 2
       /\ a.agent_id = res.agent /\ b.agent_id = res.agent
       /\ a.position = 1 /\ b.position = 1


\* the tenant t has exactly the six default stages, at positions 1..6
HasSixDefaults(t) ==
  /\ Cardinality(StagesOf(crm_stages, t)) = 6
  /\ {<<r.name, r.position>> : r \in StagesOf(crm_stages, t)} = SixDefaults

\* the finished or failed call of caller c read its stage list before the
\* call of caller d inserted
ReadBeforeInsertOf(c, d) ==
  \A r \in Range(calls[d].created) : r \notin Range(calls[c].existing)

\* C26: when two createStage calls without position for the same tenant both
\* read the stage list, the same list, before either inserted, both inserts
\* succeeded and the two new stages are both stored, with the same position.
ConcurrentCreatesCollide ==
  \A c, d \in Callers :
    (/\ c # d
     /\ calls[c].op = "createStage" /\ calls[d].op = "createStage"
     /\ calls[c].agent = calls[d].agent
     /\ calls[c].pc \in {"done", "failed"} /\ calls[d].pc \in {"done", "failed"}
     /\ ReadBeforeInsertOf(c, d) /\ ReadBeforeInsertOf(d, c)
     /\ Range(calls[c].existing) = Range(calls[d].existing))
    => /\ calls[c].pc = "done" /\ calls[d].pc = "done"
       /\ calls[c].created[1] \in crm_stages /\ calls[d].created[1] \in crm_stages
       /\ calls[c].created[1].id # calls[d].created[1].id
       /\ calls[c].created[1].position = calls[d].created[1].position

\* two finished createStage calls of tenant "A" that both read the empty
\* list: two stages at position 1
ConcurrentCreatesCollideWitness ==
  /\ calls["c1"].pc = "done" /\ calls["c2"].pc = "done"
  /\ calls["c1"].op = "createStage" /\ calls["c2"].op = "createStage"
  /\ calls["c1"].agent = "A" /\ calls["c2"].agent = "A"
  /\ calls["c1"].existing = <<>> /\ calls["c2"].existing = <<>>
  /\ Cardinality({r \in crm_stages : r.agent_id = "A" /\ r.position = 1}) = 2

\* C27: after initializeDefaultStages returned successfully, with either
\* status, for a tenant whose stages were only ever created by
\* initializeDefaultStages and never deleted, the tenant has exactly the six
\* default stages, also when an earlier call failed partway through seeding.
SeededCompletely ==
  (res.op = "initializeDefaultStages" /\ res.ok) => HasSixDefaults(res.agent)

\* C28: once two concurrent initializeDefaultStages calls for the same fresh
\* tenant have both returned, the tenant has exactly six stages, at
\* positions 1..6.
SeededOnce ==
  \A c, d \in Callers :
    (/\ c # d
     /\ calls[c].op = "initializeDefaultStages" /\ calls[d].op = "initializeDefaultStages"
     /\ calls[c].agent = calls[d].agent
     /\ calls[c].pc = "done" /\ calls[d].pc = "done")
    => HasSixDefaults(calls[c].agent)


\* C29: every reference stays inside one tenant: the stage a contact
\* references, and the contact an interaction or a task references, has the
\* agent_id of the referencing row.
ReferencesWithinTenant ==
  /\ \A c \in crm_contacts, x \in crm_stages : c.stage_id = x.id => c.agent_id = x.agent_id
  /\ \A i \in crm_interactions, c \in crm_contacts :
       i.contact_id = c.id => i.agent_id = c.agent_id
  /\ \A k \in crm_tasks, c \in crm_contacts : k.contact_id = c.id => k.agent_id = c.agent_id

====
